---- MODULE Spec2Model ----
(***************************************************************************)
(* A model of src/merged_source_dumper.py: collect_source_files walks a    *)
(* directory tree, keeps the files whose name ends with a configured       *)
(* extension, sorts their paths and writes them, one delimited block per   *)
(* path, into a single output document.                                    *)
(*                                                                         *)
(* Strings are sequences of one-character strings, so that suffix tests    *)
(* and the lexicographic order of paths are computed, not assumed.         *)
(***************************************************************************)
EXTENDS Integers, Sequences, FiniteSets, TLC

(* ------------------------------------------------------------------ *)
(* Bounds of the model                                                 *)
(* ------------------------------------------------------------------ *)

\* How many times the caller runs collect_source_files in one behaviour.
MaxRuns == 2

\* How many writes to the output file may fail in one behaviour.
MaxFaults == 1

(* ------------------------------------------------------------------ *)
(* Strings, paths and their order                                      *)
(* ------------------------------------------------------------------ *)

\* Code point of a character: Python compares str values code point by
\* code point (collected_paths.sort()).
Ord(c) ==
  CASE c = "." -> 46 [] c = "/" -> 47
    [] c = "B" -> 66 [] c = "S" -> 83 [] c = "T" -> 84 [] c = "_" -> 95
    [] c = "a" -> 97 [] c = "b" -> 98 [] c = "c" -> 99 [] c = "d" -> 100
    [] c = "e" -> 101 [] c = "g" -> 103 [] c = "j" -> 106 [] c = "m" -> 109
    [] c = "n" -> 110 [] c = "o" -> 111 [] c = "p" -> 112 [] c = "r" -> 114
    [] c = "s" -> 115 [] c = "t" -> 116 [] c = "u" -> 117 [] c = "x" -> 120

\* a < b for two str values.
StrLess(a, b) ==
  \E i \in 1..(Len(a) + 1) :
    /\ i <= Len(b)
    /\ \A j \in 1..(i - 1) : a[j] = b[j]
    /\ \/ i = Len(a) + 1
       \/ Ord(a[i]) < Ord(b[i])

\* file.endswith(ext)
EndsWith(s, suffix) ==
  /\ Len(suffix) <= Len(s)
  /\ SubSeq(s, Len(s) - Len(suffix) + 1, Len(s)) = suffix

\* The set literal of lines 13-16.
exts ==
  { <<".", "t", "s">>, <<".", "t", "s", "x">>, <<".", "j", "s">>,
    <<".", "j", "s", "x">>, <<".", "c", "s", "s">>, <<".", "m", "d">>,
    <<".", "j", "s", "o", "n">> }

\* Variant of Qualifies that ignores case (file.lower().endswith(ext)); the
\* filter property must tell it from the code.
Lower(c) ==
  IF c = "B" THEN "b" ELSE IF c = "T" THEN "t" ELSE IF c = "S" THEN "s" ELSE c
QualifiesIgnoringCase(file) ==
  \E ext \in exts : EndsWith([k \in 1..Len(file) |-> Lower(file[k])], ext)

\* any(file.endswith(ext) for ext in exts)
Qualifies(file) == \E ext \in exts : EndsWith(file, ext)

\* os.path.join(folder, file) on a POSIX system.
Join(folder, file) == folder \o <<"/">> \o file

\* list.sort(): insertion of x into an ascending list, then the whole sort.
RECURSIVE Insert(_, _)
Insert(x, s) ==
  IF s = <<>> THEN <<x>>
  ELSE IF StrLess(x, Head(s)) THEN <<x>> \o s
  ELSE <<Head(s)>> \o Insert(x, Tail(s))

\* Variant of SortPaths that leaves the list in the order of the walk.
Unsorted(s) == s

RECURSIVE SortPaths(_)
SortPaths(s) == IF s = <<>> THEN <<>> ELSE Insert(Head(s), SortPaths(Tail(s)))

\* Every order in which a set can be listed (the order of a directory
\* listing is the operating system's).
RECURSIVE Orders(_)
Orders(S) ==
  IF S = {} THEN { <<>> }
  ELSE UNION { { <<x>> \o t : t \in Orders(S \ {x}) } : x \in S }

\* Lines 22-25: the inner loop over one folder's files, appending the full
\* path of each file that qualifies.
RECURSIVE Appended(_, _, _)
Appended(paths, folder, files) ==
  IF files = <<>> THEN paths
  ELSE Appended(IF Qualifies(Head(files))
                  THEN Append(paths, Join(folder, Head(files)))
                  ELSE paths,
                folder, Tail(files))

(* ------------------------------------------------------------------ *)
(* The file system the program runs on                                 *)
(* ------------------------------------------------------------------ *)

\* The default arguments of line 3.
DefaultRoot == <<".", "/", "s", "r", "c">>
DefaultOut ==
  <<"m", "e", "r", "g", "e", "d", "_", "s", "o", "u", "r", "c", "e", "_",
    "d", "u", "m", "p", ".", "t", "x", "t">>

\* A hidden subdirectory of the root.
SubDir == Join(DefaultRoot, <<".", "g">>)

\* The directory entries the model considers: [folder, name].
Entry(folder, name) == [folder |-> folder, name |-> name]
TreeEntries ==
  { Entry(DefaultRoot, <<"b", ".", "t", "s">>),
    Entry(DefaultRoot, <<"B", ".", "T", "S">>),
    Entry(DefaultRoot, <<"c", ".", "p", "n", "g">>),
    Entry(DefaultRoot, <<"m", ".", "m", "d">>),
    Entry(SubDir, <<"a", ".", "t", "s", "x">>) }

PathOf(e) == Join(e.folder, e.name)
TreePaths == { PathOf(e) : e \in TreeEntries }

\* An output path inside the walked tree, with a configured extension.
InTreeOut == Join(DefaultRoot, <<"m", ".", "m", "d">>)

Paths == TreePaths \cup {DefaultOut}

\* A byte that is not valid UTF-8.
BadByte == "0xFF"

\* A path's state: absent, a regular file ("ok"), a file the process may
\* neither read nor write ("noperm"), or a directory entry whose file is
\* gone ("gone": a dangling link, a file removed after it was listed).
File(bytes, mode) == [bytes |-> bytes, mode |-> mode]
Absent == File(<<>>, "absent")

Plain == File(<<"x">>, "ok")
Old == File(<<"y">>, "ok")
CrLf == File(<<"x", "\r", "\n", "y">>, "ok")
Binary == File(<<BadByte>>, "ok")
Locked == File(<<"x">>, "noperm")
Gone == File(<<>>, "gone")

FileStates == {Absent, Plain, Old, CrLf, Binary, Locked, Gone}

\* The states each path may start in.
Allowed(p) ==
  IF p = Join(DefaultRoot, <<"b", ".", "t", "s">>)
    THEN {Absent, Plain, CrLf, Binary, Locked, Gone}
  ELSE IF p = Join(DefaultRoot, <<"B", ".", "T", "S">>) THEN {Absent, Plain}
  ELSE IF p = Join(DefaultRoot, <<"c", ".", "p", "n", "g">>) THEN {Absent, Binary}
  ELSE IF p = Join(SubDir, <<"a", ".", "t", "s", "x">>) THEN {Absent, Old, Locked}
  ELSE {Absent, Old, Locked}

Exists(f, p) == f[p].mode # "absent"

\* The directories that may exist: the root, and SubDir inside it.
SubDirsOf(folder) == IF folder = DefaultRoot THEN {SubDir} ELSE {}

\* The names os.walk reports as the files of a folder: every entry that is
\* not a directory, a dangling one included.
FilesIn(f, folder) ==
  { e.name : e \in { x \in TreeEntries : x.folder = folder /\ Exists(f, PathOf(x)) } }

(* ------------------------------------------------------------------ *)
(* Text input and output                                               *)
(* ------------------------------------------------------------------ *)

\* str(e) of the exceptions the try block can raise.
ENOENT(path) == <<"[Errno 2] No such file or directory: '">> \o path \o <<"'">>
EACCES(path) == <<"[Errno 13] Permission denied: '">> \o path \o <<"'">>
EDECODE == <<"'utf-8' codec can't decode byte 0xff in position 0: invalid start byte">>
ENOSPC == <<"[Errno 28] No space left on device">>

\* Text mode with the default newline=None: on reading, "\r\n" and a lone
\* "\r" become "\n" (on writing, "\n" becomes os.linesep, "\n" itself on a
\* POSIX system).
RECURSIVE UniversalNewlines(_)
UniversalNewlines(t) ==
  IF t = <<>> THEN <<>>
  ELSE IF Head(t) = "\r" /\ Len(t) >= 2 /\ t[2] = "\n"
    THEN <<"\n">> \o UniversalNewlines(Tail(Tail(t)))
  ELSE IF Head(t) = "\r" THEN <<"\n">> \o UniversalNewlines(Tail(t))
  ELSE <<Head(t)>> \o UniversalNewlines(Tail(t))

Ok(text) == [ok |-> TRUE, text |-> text, e |-> <<>>]
Raise(e) == [ok |-> FALSE, text |-> <<>>, e |-> e]

\* open(path, "r", encoding="utf-8") followed by f.read(), line 35-36.
ReadText(f, path) ==
  IF f[path].mode \in {"absent", "gone"} THEN Raise(ENOENT(path))
  ELSE IF f[path].mode = "noperm" THEN Raise(EACCES(path))
  ELSE IF \E i \in 1..Len(f[path].bytes) : f[path].bytes[i] = BadByte
    THEN Raise(EDECODE)
  ELSE Ok(UniversalNewlines(f[path].bytes))

\* Variant of AfterRead: the input opened with mode "w", which empties it.
OpenedForWriting(f, path) == [f EXCEPT ![path] = File(<<>>, "ok")]

\* Opening a file for reading leaves it as it is.
AfterRead(f, path) == f

\* Variant of Truncated: open(output_file, "a"), which keeps what is there.
OpenedForAppend(f, path) == [f EXCEPT ![path] = File(f[path].bytes, "ok")]

\* open(output_file, "w"): the file is created, or cut to nothing.
Truncated(f, path) == [f EXCEPT ![path] = File(<<>>, "ok")]

\* open(output_file, "w") fails on a file the process may not write, and
\* in a directory that does not exist.
CanOpenForWriting(f, d, path) ==
  /\ f[path].mode # "noperm"
  /\ \A e \in TreeEntries : PathOf(e) = path => e.folder \in d

\* The writer's buffer: what has been written reaches the disk one full
\* buffer at a time, and the rest when the file is closed. Python's buffer
\* holds 8192 bytes; the texts of the model are a few characters long and
\* the buffer is scaled down with them, so that a run of one or two short
\* blocks stays in the buffer and a longer one overflows it.
BufferSize == 32
OnDiskLen(n) == (n \div BufferSize) * BufferSize

\* The file after `upto` characters of `text` are on disk, `synced` of
\* them having been there before.
Flushed(f, path, text, synced, upto) ==
  [f EXCEPT ![path] = File(f[path].bytes \o SubSeq(text, synced + 1, upto), "ok")]

\* Variant of Closed: the file is never closed, the buffer never flushed.
LeftOpen(f, path, text, synced) == f

\* Leaving the with block closes the file: everything written is on disk.
Closed(f, path, text, synced) == Flushed(f, path, text, synced, Len(text))

\* The f-strings of lines 32 and 38.
Delimiter(path) == <<"\n", "\n", "===== FILE: ">> \o path \o <<" =====", "\n", "\n">>
Placeholder(e) == <<"[ERROR READING FILE: ">> \o e \o <<"]">>

\* Variant of Catches: except OSError, which lets a decoding error through.
CatchesOSError(e) == e # EDECODE

\* except Exception (line 37) catches whatever the try block raises.
Catches(e) == TRUE

\* Variant of WalkDone: the loop is left before the walk is over.
WalkCutShort(left) == TRUE

\* The for loop of line 21 ends when os.walk has no folder left.
WalkDone(left) == left = <<>>

(* ------------------------------------------------------------------ *)
(* State                                                               *)
(* ------------------------------------------------------------------ *)

VARIABLES
  fs,           \* the file system: path -> File
  dirs,         \* the directories that exist
  root_dir,     \* argument of collect_source_files
  output_file,  \* argument of collect_source_files
  pc,           \* where the program is
  todo,         \* the folders os.walk has still to yield
  collected_paths, \* the list of line 18
  idx,          \* position of the for loop of line 31 in collected_paths
  written,      \* what this run has written to `out`
  synced,       \* how much of `written` is on disk
  data,         \* the value of f.read() on its way to out.write
  err,          \* str(e) of the exception the except clause handles
  cause,        \* what ended the run, when an exception left the function
  final_doc,    \* the value collect_source_files returned (line 44 binds it)
  printed,      \* what line 45 printed
  runs,         \* calls of collect_source_files so far
  faults,       \* writes that failed so far
  opens,        \* times this run opened the output file
  marks,        \* offsets in `written` where this run wrote a delimiter
  shuffled,     \* the walk reported the paths in another order than sorted
  fsStart,      \* the file system when the current run began
  docs          \* the output document each completed run left

vars ==
  <<fs, dirs, root_dir, output_file, pc, todo, collected_paths, idx, written,
    synced, data, err, cause, final_doc, printed, runs, faults, opens, marks,
    shuffled, fsStart, docs>>

\* A tree the operating system allows: files only in directories that
\* exist, SubDir only inside an existing root.
TreeOk(f, d) ==
  /\ \A e \in TreeEntries : Exists(f, PathOf(e)) => e.folder \in d
  /\ SubDir \in d => DefaultRoot \in d

InitCommon ==
  /\ dirs \in SUBSET {DefaultRoot, SubDir}
  /\ fs \in [Paths -> FileStates]
  /\ \A p \in Paths : fs[p] \in Allowed(p)
  /\ TreeOk(fs, dirs)
  /\ root_dir = DefaultRoot
  /\ pc = "idle"
  /\ todo = <<>>
  /\ collected_paths = <<>>
  /\ idx = 0
  /\ written = <<>>
  /\ synced = 0
  /\ data = <<>>
  /\ err = <<>>
  /\ cause = ""
  /\ final_doc = <<>>
  /\ printed = <<>>
  /\ runs = 0
  /\ faults = 0
  /\ opens = 0
  /\ marks = <<>>
  /\ shuffled = FALSE
  /\ fsStart = fs
  /\ docs = <<>>

\* A caller that passes its own output path.
Init == InitCommon /\ output_file \in {DefaultOut, InTreeOut}

\* The module's own call, line 44: the defaults of line 3.
InitMain == InitCommon /\ output_file = DefaultOut

(* ------------------------------------------------------------------ *)
(* collect_source_files, step by step                                  *)
(* ------------------------------------------------------------------ *)

\* Entering the function: line 18, and os.walk(root_dir) ready to start.
Enter ==
  /\ pc' = "walk"
  /\ runs' = runs + 1
  /\ collected_paths' = <<>>
  /\ todo' = <<root_dir>>
  /\ idx' = 0
  /\ written' = <<>>
  /\ synced' = 0
  /\ data' = <<>>
  /\ err' = <<>>
  /\ cause' = ""
  /\ opens' = 0
  /\ marks' = <<>>
  /\ shuffled' = FALSE
  /\ fsStart' = fs
  /\ UNCHANGED <<fs, dirs, root_dir, output_file, final_doc, printed, faults, docs>>

\* A caller calls the function, and may call it again once it has returned.
Call ==
  /\ pc \in {"idle", "returned"}
  /\ runs < MaxRuns
  /\ Enter

\* Line 44: the module calls the function once.
MainCall ==
  /\ pc = "idle"
  /\ Enter

\* One iteration of the loop of line 21: os.walk yields the next folder
\* (top-down, a folder before its subfolders) and lines 22-25 go through its
\* files. A folder that cannot be listed is skipped: os.walk ignores the
\* error (onerror=None).
WalkDir ==
  /\ pc = "walk"
  /\ ~WalkDone(todo)
  /\ LET folder == Head(todo) IN
       IF folder \notin dirs
         THEN /\ todo' = Tail(todo)
              /\ UNCHANGED collected_paths
         ELSE \E files \in Orders(FilesIn(fs, folder)) :
              \E subs \in Orders(SubDirsOf(folder) \cap dirs) :
                /\ collected_paths' = Appended(collected_paths, folder, files)
                /\ todo' = subs \o Tail(todo)
  /\ UNCHANGED <<fs, dirs, root_dir, output_file, pc, idx, written, synced,
                 data, err, cause, final_doc, printed, runs, faults, opens, marks,
                 shuffled, fsStart, docs>>

\* Line 28.
Sort ==
  /\ pc = "walk"
  /\ WalkDone(todo)
  /\ collected_paths' = SortPaths(collected_paths)
  /\ shuffled' = (collected_paths # SortPaths(collected_paths))
  /\ pc' = "open"
  /\ UNCHANGED <<fs, dirs, root_dir, output_file, todo, idx, written, synced,
                 data, err, cause, final_doc, printed, runs, faults, opens, marks,
                 fsStart, docs>>

\* Line 30: open(output_file, "w"). A failure leaves the function.
OpenOut ==
  /\ pc = "open"
  /\ IF CanOpenForWriting(fs, dirs, output_file)
       THEN /\ fs' = Truncated(fs, output_file)
            /\ opens' = opens + 1
            /\ idx' = 1
            /\ pc' = "loop"
            /\ UNCHANGED cause
       ELSE /\ pc' = "crashed"
            /\ cause' = "open"
            /\ UNCHANGED <<fs, opens, idx>>
  /\ UNCHANGED <<dirs, root_dir, output_file, todo, collected_paths, written,
                 synced, data, err, final_doc, printed, runs, faults, marks,
                 shuffled, fsStart, docs>>

\* out.write(text) that succeeds.
WriteOk(text) ==
  /\ written' = written \o text
  /\ synced' = OnDiskLen(Len(written'))
  /\ fs' = Flushed(fs, output_file, written', synced, synced')
  /\ UNCHANGED faults

\* How much of a text a failing write may have put out: none of it, or
\* all but its end.
PartialLens(text) == {0, Len(text) - 1} \cap Nat

\* out.write(text) that raises after some of the text went out; an
\* exception that leaves the with block closes the file.
WriteFails(text, leaves) ==
  /\ faults < MaxFaults
  /\ faults' = faults + 1
  /\ \E k \in PartialLens(text) :
       /\ written' = written \o SubSeq(text, 1, k)
       /\ IF leaves
            THEN /\ synced' = Len(written')
                 /\ fs' = Closed(fs, output_file, written', synced)
            ELSE /\ synced' = OnDiskLen(Len(written'))
                 /\ fs' = Flushed(fs, output_file, written', synced, synced')

\* Line 32: the delimiter, outside the try block.
WriteDelimiter ==
  /\ pc = "loop"
  /\ idx <= Len(collected_paths)
  /\ \/ /\ WriteOk(Delimiter(collected_paths[idx]))
        /\ marks' = Append(marks, Len(written) + 1)
        /\ pc' = "try"
        /\ UNCHANGED cause
     \/ /\ WriteFails(Delimiter(collected_paths[idx]), TRUE)
        /\ pc' = "crashed"
        /\ cause' = "write"
        /\ UNCHANGED marks
  /\ UNCHANGED <<dirs, root_dir, output_file, todo, collected_paths, idx, data,
                 err, final_doc, printed, runs, opens, shuffled, fsStart, docs>>

\* Lines 35-36, the read: open(path, "r") and f.read().
ReadFile ==
  /\ pc = "try"
  /\ LET r == ReadText(fs, collected_paths[idx]) IN
       IF r.ok
         THEN /\ data' = r.text
              /\ fs' = AfterRead(fs, collected_paths[idx])
              /\ pc' = "write"
              /\ UNCHANGED <<err, cause, synced>>
         ELSE /\ err' = r.e
              /\ data' = <<>>
              /\ IF Catches(r.e)
                   THEN /\ pc' = "except"
                        /\ UNCHANGED <<cause, fs, synced>>
                   ELSE /\ pc' = "crashed"
                        /\ cause' = "read"
                        /\ fs' = Closed(fs, output_file, written, synced)
                        /\ synced' = Len(written)
  /\ UNCHANGED <<dirs, root_dir, output_file, todo, collected_paths, idx, written,
                 final_doc, printed, runs, faults, opens, marks, shuffled, fsStart,
                 docs>>

\* Line 36, the write: out.write(...) is inside the try block too.
WriteBody ==
  /\ pc = "write"
  /\ \/ /\ WriteOk(data)
        /\ idx' = idx + 1
        /\ pc' = "loop"
        /\ UNCHANGED err
     \/ /\ WriteFails(data, FALSE)
        /\ err' = ENOSPC
        /\ pc' = "except"
        /\ UNCHANGED idx
  /\ data' = <<>>
  /\ UNCHANGED <<dirs, root_dir, output_file, todo, collected_paths, cause, final_doc,
                 printed, runs, opens, marks, shuffled, fsStart, docs>>

\* Line 38: the except clause writes the placeholder.
WriteError ==
  /\ pc = "except"
  /\ \/ /\ WriteOk(Placeholder(err))
        /\ idx' = idx + 1
        /\ pc' = "loop"
        /\ UNCHANGED cause
     \/ /\ WriteFails(Placeholder(err), TRUE)
        /\ pc' = "crashed"
        /\ cause' = "write"
        /\ UNCHANGED idx
  /\ UNCHANGED <<dirs, root_dir, output_file, todo, collected_paths, data, err,
                 final_doc, printed, runs, opens, marks, shuffled, fsStart, docs>>

\* The end of the with block of line 30.
CloseOut ==
  /\ pc = "loop"
  /\ idx > Len(collected_paths)
  /\ fs' = Closed(fs, output_file, written, synced)
  /\ synced' = Len(written)
  /\ pc' = "return"
  /\ UNCHANGED <<dirs, root_dir, output_file, todo, collected_paths, idx, written,
                 data, err, cause, final_doc, printed, runs, faults, opens, marks,
                 shuffled, fsStart, docs>>

\* Line 40.
Return ==
  /\ pc = "return"
  /\ final_doc' = output_file
  /\ docs' = Append(docs, fs[output_file].bytes)
  /\ pc' = "returned"
  /\ UNCHANGED <<fs, dirs, root_dir, output_file, todo, collected_paths, idx,
                 written, synced, data, err, cause, printed, runs, faults,
                 opens, marks, shuffled, fsStart>>

\* Line 45.
PrintSaved ==
  /\ pc = "returned"
  /\ printed' = <<"Merged document saved as:", final_doc>>
  /\ pc' = "printed"
  /\ UNCHANGED <<fs, dirs, root_dir, output_file, todo, collected_paths, idx,
                 written, synced, data, err, cause, final_doc, runs, faults, opens,
                 marks, shuffled, fsStart, docs>>

Run ==
  \/ WalkDir \/ Sort \/ OpenOut \/ WriteDelimiter \/ ReadFile \/ WriteBody
  \/ WriteError \/ CloseOut \/ Return

Next == Call \/ Run

NextMain == MainCall \/ Run \/ PrintSaved

\* The function as a caller uses it.
Spec == Init /\ [][Next]_vars

\* The program: the module run as a script.
SpecMain == InitMain /\ [][NextMain]_vars

(* ------------------------------------------------------------------ *)
(* Vocabulary of the properties                                        *)
(* ------------------------------------------------------------------ *)

\* The output document as it is on disk.
Doc == fs[output_file].bytes

\* The extensions the specification lists.
ConfiguredExtensions ==
  { <<".", "t", "s">>, <<".", "t", "s", "x">>, <<".", "j", "s">>,
    <<".", "j", "s", "x">>, <<".", "c", "s", "s">>, <<".", "m", "d">>,
    <<".", "j", "s", "o", "n">> }

\* The name ends, case-sensitively, with a listed extension.
HasConfiguredExtension(name) ==
  \E e \in ConfiguredExtensions :
    /\ Len(name) >= Len(e)
    /\ \A k \in 1..Len(e) : name[Len(name) - Len(e) + k] = e[k]

\* The files under the root when the run began, and those that qualify.
FoundAtStart == { e \in TreeEntries : Exists(fsStart, PathOf(e)) }
QualifyingAtStart == { e \in FoundAtStart : HasConfiguredExtension(e.name) }

\* The delimiter line the specification gives for a path.
MarkerFor(path) == <<"\n", "\n", "===== FILE: ">> \o path \o <<" =====", "\n", "\n">>

\* The blocks of the document: block i starts where the run wrote its i-th
\* delimiter and ends where the next one starts, or with the document.
NBlocks == Len(marks)
BlockStart(i) == marks[i]
BlockEnd(i) == IF i < Len(marks) THEN marks[i + 1] - 1 ELSE Len(Doc)

RECURSIVE PathFrom(_, _)
PathFrom(w, k) ==
  IF k > Len(w) \/ w[k] = " =====" THEN <<>>
  ELSE <<w[k]>> \o PathFrom(w, k + 1)

\* The path block i names, and whether the block opens with the delimiter
\* of that path.
BlockPath(i) == PathFrom(Doc, BlockStart(i) + 3)
BlockIsFor(i, path) ==
  /\ BlockStart(i) + Len(path) + 5 <= Len(Doc)
  /\ SubSeq(Doc, BlockStart(i), BlockStart(i) + Len(path) + 5) = MarkerFor(path)

\* What stands between block i's delimiter and the next block.
BlockBody(i) ==
  LET from == BlockStart(i) + Len(BlockPath(i)) + 6 IN
    IF from > BlockEnd(i) THEN <<>> ELSE SubSeq(Doc, from, BlockEnd(i))

BlocksFor(path) == { i \in 1..NBlocks : BlockIsFor(i, path) }

\* Reading the file as it was when the run began fails.
UnreadableAtStart(path) ==
  \/ fsStart[path].mode \in {"noperm", "gone"}
  \/ \E k \in 1..Len(fsStart[path].bytes) : fsStart[path].bytes[k] = BadByte

\* The messages of the failures to read a path.
ReadErrors(path) == {ENOENT(path), EACCES(path), EDECODE}

\* The run is over and the function has returned.
Returned == pc \in {"returned", "printed"}

(* ------------------------------------------------------------------ *)
(* The properties                                                      *)
(* ------------------------------------------------------------------ *)

\* The blocks name strictly ascending paths.
BlocksAscending ==
  \A i \in 1..NBlocks : \A j \in 1..NBlocks :
    i < j => StrLess(BlockPath(i), BlockPath(j))

\* C1 (filter correctness): once collect_source_files has returned, every
\* file that was under the root (in the root or in a subdirectory, whatever
\* the directory is called) has exactly one block in the output if its name
\* ends, case-sensitively, with a configured extension, and none otherwise;
\* and every block is the block of such a file.
FilterCorrectness ==
  Returned =>
    /\ \A e \in FoundAtStart :
         Cardinality(BlocksFor(PathOf(e)))
           = IF HasConfiguredExtension(e.name) THEN 1 ELSE 0
    /\ \A i \in 1..NBlocks :
         \E e \in QualifyingAtStart : BlockIsFor(i, PathOf(e))

\* C1's case: a run returned on a tree holding a qualifying file in the
\* hidden subdirectory, one in the root, a file whose extension differs
\* only in case and a file with another extension.
FilterWitness ==
  /\ Returned
  /\ BlocksFor(Join(SubDir, <<"a", ".", "t", "s", "x">>)) # {}
  /\ BlocksFor(Join(DefaultRoot, <<"b", ".", "t", "s">>)) # {}
  /\ Exists(fsStart, Join(DefaultRoot, <<"B", ".", "T", "S">>))
  /\ Exists(fsStart, Join(DefaultRoot, <<"c", ".", "p", "n", "g">>))

\* C2 (ordering determinism): whatever order the walk reported the files
\* in, the blocks of the output are in strictly ascending order of their
\* full path strings.
OrderingDeterminism ==
  Returned => /\ NBlocks = Cardinality(QualifyingAtStart)
              /\ \A i \in 1..NBlocks : BlockIsFor(i, BlockPath(i))
              /\ BlocksAscending

\* C2's case: the walk reported three qualifying files in an order that is
\* not the sorted one, and the run returned.
OrderingWitness == Returned /\ shuffled /\ NBlocks >= 3

\* C3 (error isolation): a failure to read a collected_paths file never leaves
\* the function; in the output of a run that returned, the block of every
\* file that could not be read holds the placeholder that starts with
\* "[ERROR READING FILE:" and nothing else, and every qualifying file has
\* its block, in ascending order.
ErrorIsolation ==
  /\ cause # "read"
  /\ Returned =>
       /\ \A e \in QualifyingAtStart : BlocksFor(PathOf(e)) # {}
       /\ BlocksAscending
       /\ \A i \in 1..NBlocks :
            UnreadableAtStart(BlockPath(i)) =>
              \E m \in ReadErrors(BlockPath(i)) :
                BlockBody(i) = <<"[ERROR READING FILE: ">> \o m \o <<"]">>

\* C3's case: a run returned whose second block is the placeholder of a file
\* that is not valid UTF-8, between the blocks of two files that were read.
ErrorIsolationWitness ==
  /\ Returned
  /\ NBlocks = 3
  /\ ~UnreadableAtStart(BlockPath(1))
  /\ UnreadableAtStart(BlockPath(2))
  /\ BlockBody(2) = <<"[ERROR READING FILE: ">> \o EDECODE \o <<"]">>
  /\ ~UnreadableAtStart(BlockPath(3))
  /\ BlockBody(3) = fsStart[BlockPath(3)].bytes

\* C4 (content fidelity): when no write to the output failed, the block of
\* every qualifying file whose content, when the run began, was the text C
\* holds exactly C between its delimiter and the next block.
ContentFidelity ==
  (Returned /\ faults = 0) =>
    \A i \in 1..NBlocks :
      ~UnreadableAtStart(BlockPath(i)) =>
        BlockBody(i) = fsStart[BlockPath(i)].bytes

\* C5 (idempotence): two runs in a row with the same arguments, nothing
\* else touching the file system and no write failing, leave the same
\* output document.
Idempotence ==
  (Len(docs) >= 2 /\ faults = 0) => docs[2] = docs[1]

\* C6 (empty tree): when the root holds no qualifying file, or does not
\* exist, nothing but the opening of the output file can raise, and a run
\* that got past it leaves an output file that exists and is empty.
EmptyTree ==
  (runs >= 1 /\ QualifyingAtStart = {}) =>
    /\ pc = "crashed" => cause = "open"
    /\ pc \in {"return", "returned", "printed"} =>
         /\ Exists(fs, output_file)
         /\ Doc = <<>>
         /\ NBlocks = 0

\* C6's case: the root does not exist, the output path held an older
\* document, and the run returned.
EmptyTreeWitness ==
  /\ Returned
  /\ DefaultRoot \notin dirs
  /\ fsStart[output_file] = Old

\* C7 (two-tier errors): the except clause only ever handles a failure to
\* read an input file; a failed write to the output is never caught.
OnlyReadErrorsCaught ==
  pc = "except" =>
    err \in ReadErrors(collected_paths[idx])

\* C8 as stated (frame): no step of a run changes a file under the root.
FrameUnderRoot ==
  [][\A p \in TreePaths : fs'[p] = fs[p]]_vars

\* C8 as amended (frame): no step of a run changes a file other than the one
\* at the output path, and no step creates or removes a directory.
FrameExceptOutput ==
  [][/\ \A p \in Paths \ {output_file} : fs'[p] = fs[p]
     /\ dirs' = dirs]_vars

\* C8's case: a run returned that read one input file, failed to read
\* another, and replaced an older document at the output path.
FrameWitness ==
  /\ Returned
  /\ \E i \in 1..NBlocks : UnreadableAtStart(BlockPath(i))
  /\ \E i \in 1..NBlocks : ~UnreadableAtStart(BlockPath(i))
  /\ fsStart[output_file] = Old
  /\ fs[output_file] # fsStart[output_file]

\* C9 (the program): the script calls collect_source_files once, with root
\* "./src" and output "merged_source_dump.txt"; the function returns the
\* output path; the confirmation line is printed only once the whole
\* document is on disk, and never after a run that raised.
ConfirmationAfterWrite ==
  /\ runs <= 1
  /\ runs = 1 =>
       /\ root_dir = <<".", "/", "s", "r", "c">>
       /\ output_file = <<"m", "e", "r", "g", "e", "d", "_", "s", "o", "u",
                          "r", "c", "e", "_", "d", "u", "m", "p", ".", "t",
                          "x", "t">>
  /\ Returned => final_doc = output_file
  /\ pc = "crashed" => printed = <<>>
  /\ printed # <<>> =>
       /\ pc = "printed"
       /\ runs = 1
       /\ printed = <<"Merged document saved as:", output_file>>
       /\ NBlocks = Len(collected_paths)
       /\ idx = Len(collected_paths) + 1
       /\ Doc = written

\* C9's case: the confirmation line is printed after a run that wrote two
\* blocks.
ConfirmationWitness == pc = "printed" /\ NBlocks >= 2

\* C10 (phase ordering): while the walk runs the output file is neither
\* opened nor written; when it is opened the walk is over and the collected_paths
\* list is sorted and final: it holds exactly the qualifying files, in
\* ascending order, until the run ends; the file is opened at most once.
PhaseOrdering ==
  /\ pc = "walk" => /\ opens = 0
                    /\ written = <<>>
                    /\ fs[output_file] = fsStart[output_file]
  /\ opens <= 1
  /\ opens = 1 =>
       /\ todo = <<>>
       /\ { collected_paths[k] : k \in 1..Len(collected_paths) }
            = { PathOf(e) : e \in QualifyingAtStart }
       /\ \A i \in 1..Len(collected_paths) : \A j \in 1..Len(collected_paths) :
            i < j => StrLess(collected_paths[i], collected_paths[j])
  /\ written # <<>> => opens = 1

\* C10's case: the third delimiter is being written, the walk having found
\* the files in another order.
PhaseOrderingWitness == pc = "try" /\ idx = 3 /\ shuffled

====
